---------------------------- MODULE Spec2Model ----------------------------
(***************************************************************************)
(* Model of the StatsBomb raw-store ingester (src/ingest_statsbomb_raw.py) *)
(* and of the flat-event exporter (src/scripts/export_events_flat.py).     *)
(*                                                                         *)
(* The store is the SQLite file: `durable` is its committed content and    *)
(* `db` is what the ingester's connection sees (committed content plus the *)
(* open transaction).  The exporter opens its own connection and reads the *)
(* committed content.                                                      *)
(***************************************************************************)
EXTENDS Integers, Sequences, FiniteSets, TLC

(***************************************************************************)
(* Bounds of the model.                                                    *)
(***************************************************************************)
\* cur.fetchmany(50_000), scaled down: rows per fetch page
FetchPage == 2
\* largest --batch-size tried (1..MaxBatch)
MaxBatch == 3
\* largest index_in_file found in a store that is given to the exporter
MaxIdx == 1
\* longest event source file
MaxEvents == 2
\* ingestion runs in one behaviour
MaxRuns == 2

\* Python's None / SQL NULL
NULL == -1

\* ev.get("id") of an event that has no id
MissingId == "none"

MatchIds == {1, 2}
EventIds == {"a", "b"}
PlayerIds == {1, 2}

(***************************************************************************)
(* Event payloads.  A payload is the parsed JSON object of one event; only *)
(* the fields the two programs read apart from the type-specific ones are  *)
(* kept: "id", team.id and player.id (NULL when "player" is absent).       *)
(* BadJson stands for a stored text that json.loads rejects.               *)
(***************************************************************************)
BadJson == [id |-> "unparseable", team |-> NULL, player |-> NULL]

Payload(id, team, player) == [id |-> id, team |-> team, player |-> player]

VARIABLES
    \* ---- the store
    durable,        \* committed content: [matches: set of rows, events: set of rows]
    db,             \* content seen by the ingester's connection
    \* ---- the ingester
    evFiles,        \* EVENTS_DIR: match_id -> the events file of the match
    ipc,            \* position of main()
    iconn,          \* "none" | "open" | "closed": the ingester's connection
    fileIdx,        \* index of the match file of the for loop (1-based)
    matchIdx,       \* index of the match inside the current loop over `matches`
    ingested_at,    \* timestamp of the current run, in seconds
    runs,           \* runs started so far
    snap,           \* committed content when the current run started, and whether
                    \* the run before it completed over the same sources
    edited,         \* the sources changed since the last run
    committed,      \* match files committed by the current run
    \* ---- the exporter
    epc,            \* position of export_events_flat()
    econn,          \* "none" | "open" | "closed": the exporter's connection
    competition_id, season_id, limit_players, batch_size,
    use_parquet,
    match_ids,      \* temp_selected_matches
    result,         \* the whole result set of select_sql, in cursor order
    cursor,         \* rows the cursor has not returned yet
    batches,        \* batches of the current page that chunked() has still to yield
    exported, part, header_written,
    parts,          \* the part files written, in part number order
    csv,            \* lines of the CSV file
    \* ---- one call of flatten_event
    fpc,            \* "idle" | "called" | "returned"
    fev,            \* the payload `ev` of the call
    frow            \* the type-specific columns of `row`

storeVars == <<durable, db>>
ingestVars == <<evFiles, ipc, iconn, fileIdx, matchIdx, ingested_at, runs,
                snap, edited, committed>>
exportVars == <<epc, econn, competition_id, season_id, limit_players, batch_size,
                use_parquet, match_ids, result, cursor, batches, exported, part,
                header_written, parts, csv>>
flattenVars == <<fpc, fev, frow>>
vars == <<storeVars, ingestVars, exportVars, flattenVars>>

(***************************************************************************)
(* Helpers on sequences.                                                   *)
(***************************************************************************)
Range(s) == {s[i] : i \in 1..Len(s)}

Take(s, n) == SubSeq(s, 1, IF n < Len(s) THEN n ELSE Len(s))

Drop(s, n) == SubSeq(s, (IF n < Len(s) THEN n ELSE Len(s)) + 1, Len(s))

RECURSIVE Flatten(_)
Flatten(ss) == IF ss = <<>> THEN <<>> ELSE Head(ss) \o Flatten(Tail(ss))


(***************************************************************************)
(* The store's rows.  matches_raw has primary key match_id, events_raw has *)
(* primary key (match_id, event_id).  The columns period, timestamp,       *)
(* minute, second, type_name, possession and team_id of events_raw are     *)
(* copies of payload fields that neither program reads back, and are left  *)
(* out; so is events_raw.source_file, a function of match_id.              *)
(***************************************************************************)
MatchRow(mid, comp, season, file, at) ==
    [match_id |-> mid, competition_id |-> comp, season_id |-> season,
     source_file |-> file, ingested_at |-> at]

EventRow(mid, eid, idx, pid, js, at) ==
    [match_id |-> mid, event_id |-> eid, index_in_file |-> idx,
     player_id |-> pid, json |-> js, ingested_at |-> at]

EmptyStore == [matches |-> {}, events |-> {}]

(***************************************************************************)
(* flatten_event: the common columns of the output row.  player_id is      *)
(* safe_get(ev, "player", "id"), team_id is safe_get(ev, "team", "id"),    *)
(* event_id is ev.get("id").                                               *)
(***************************************************************************)
flatten_event(ev, match_id, index_in_file) ==
    [match_id |-> match_id, event_id |-> ev.id, index_in_file |-> index_in_file,
     team_id |-> ev.team, player_id |-> ev.player]

(***************************************************************************)
(* flatten_event: the location columns and the type-specific columns of    *)
(* the output row, for payloads that carry a type and nested objects.      *)
(* Names and numbers read out of a payload are coded as non-negative       *)
(* integers, Python's True as PyTrue.  A nested object is a record whose   *)
(* isdict tells whether isinstance(ev.get(key), dict) holds; a key that is *)
(* absent in the object is NULL, a location that is absent or not a list   *)
(* is the empty sequence.  height, outcome, body_part and type of a nested *)
(* object stand for safe_get(obj, key, "name").                            *)
(***************************************************************************)
PyTrue == 1

\* safe_get(ev, "type", "name") of an event that has no type name
NoType == "none"

EventTypes ==
    {"Pass", "Shot", "Carry", "Duel", "Foul Committed", "Foul Won", "Pressure",
     NoType}

PassColumns ==
    {"pass_length", "pass_height", "pass_outcome", "pass_cross", "pass_switch"}

ShotColumns == {"shot_outcome", "shot_body_part", "shot_type", "shot_xg"}

TypeSpecific ==
    PassColumns \cup ShotColumns
        \cup {"carry_length", "duel_type", "foul_committed", "foul_won"}

\* the columns of the output schema after the ids, time, context and entities
COLUMNS == {"x", "y", "end_x", "end_y"} \cup TypeSpecific

Locations == {<<>>, <<10, 20>>}

EndLocations == {<<>>, <<13, 24>>}

PassObjects ==
    {[isdict |-> FALSE, end_location |-> <<>>, length |-> NULL, height |-> NULL,
      outcome |-> NULL, cross |-> NULL, switch |-> NULL],
     [isdict |-> TRUE, end_location |-> <<>>, length |-> NULL, height |-> NULL,
      outcome |-> NULL, cross |-> NULL, switch |-> NULL],
     [isdict |-> TRUE, end_location |-> <<13, 24>>, length |-> 5, height |-> 1,
      outcome |-> 2, cross |-> PyTrue, switch |-> PyTrue]}

ShotObjects ==
    {[isdict |-> FALSE, end_location |-> <<>>, outcome |-> NULL,
      body_part |-> NULL, type |-> NULL, statsbomb_xg |-> NULL],
     [isdict |-> TRUE, end_location |-> <<>>, outcome |-> NULL,
      body_part |-> NULL, type |-> NULL, statsbomb_xg |-> NULL],
     [isdict |-> TRUE, end_location |-> <<13, 24>>, outcome |-> 1,
      body_part |-> 2, type |-> 3, statsbomb_xg |-> 4]}

CarryObjects ==
    {[isdict |-> d, end_location |-> l] : d \in BOOLEAN, l \in EndLocations}
        \ {[isdict |-> FALSE, end_location |-> <<13, 24>>]}

DuelObjects ==
    {[isdict |-> FALSE, type |-> NULL], [isdict |-> TRUE, type |-> NULL],
     [isdict |-> TRUE, type |-> 1]}

\* the objects "foul_committed" and "foul_won" of a StatsBomb event, present
\* or not; flatten_event reads neither
FoulObjects == {[isdict |-> d] : d \in BOOLEAN}

Events ==
    [type : EventTypes, location : Locations, pass : PassObjects,
     shot : ShotObjects, carry : CarryObjects, duel : DuelObjects,
     foul_committed : FoulObjects, foul_won : FoulObjects]

get_location_xy(loc) ==
    IF Len(loc) >= 2 THEN <<loc[1], loc[2]>> ELSE <<NULL, NULL>>

\* n ** 0.5, for the perfect squares the locations above give
Sqrt(n) == CHOOSE r \in 0..n : r * r = n

\* a dispatch that looks at the nested objects only
EventTypeIgnored(event_type, name) == TRUE

\* event_type == name
EventTypeIs(event_type, name) == event_type = name

flatten_event_dispatch(ev) ==
    LET event_type == ev.type
        xy == get_location_xy(ev.location)
        x == xy[1]
        y == xy[2]
        row == [[c \in COLUMNS |-> NULL] EXCEPT !.x = x, !.y = y]
        afterChain ==
            IF EventTypeIs(event_type, "Pass") /\ ev.pass.isdict THEN
                LET p == ev.pass
                    end == get_location_xy(p.end_location)
                IN  [row EXCEPT !.end_x = end[1], !.end_y = end[2],
                                !.pass_length = p.length,
                                !.pass_height = p.height,
                                !.pass_outcome = p.outcome,
                                !.pass_cross = p.cross,
                                !.pass_switch = p.switch]
            ELSE IF EventTypeIs(event_type, "Shot") /\ ev.shot.isdict THEN
                LET s == ev.shot
                    end == get_location_xy(s.end_location)
                IN  [row EXCEPT !.end_x = end[1], !.end_y = end[2],
                                !.shot_outcome = s.outcome,
                                !.shot_body_part = s.body_part,
                                !.shot_type = s.type,
                                !.shot_xg = s.statsbomb_xg]
            ELSE IF EventTypeIs(event_type, "Carry") /\ ev.carry.isdict THEN
                LET end == get_location_xy(ev.carry.end_location)
                    moved == [row EXCEPT !.end_x = end[1], !.end_y = end[2]]
                IN  IF x # NULL /\ y # NULL /\ end[1] # NULL /\ end[2] # NULL
                    THEN LET dx == end[1] - x
                             dy == end[2] - y
                         IN  [moved EXCEPT
                                 !.carry_length = Sqrt(dx * dx + dy * dy)]
                    ELSE moved
            ELSE row
        afterDuel ==
            IF EventTypeIs(event_type, "Duel") /\ ev.duel.isdict
            THEN [afterChain EXCEPT !.duel_type = ev.duel.type]
            ELSE afterChain
        afterCommitted ==
            IF EventTypeIs(event_type, "Foul Committed")
            THEN [afterDuel EXCEPT !.foul_committed = PyTrue]
            ELSE afterDuel
    IN  IF EventTypeIs(event_type, "Foul Won")
        THEN [afterCommitted EXCEPT !.foul_won = PyTrue]
        ELSE afterCommitted

\* no call of flatten_event under way
FlattenIdle ==
    /\ fpc = "idle"
    /\ fev = CHOOSE ev \in Events : ev.type = NoType
    /\ frow = [c \in COLUMNS |-> NULL]

\* flatten_event(ev, match_id, index_in_file), from its call to its return
FlattenEvent ==
    /\ fpc = "called"
    /\ frow' = flatten_event_dispatch(fev)
    /\ fpc' = "returned"
    /\ UNCHANGED <<fev, storeVars, ingestVars, exportVars>>

\* one iteration of the loop over a fetched page: a payload that does not
\* parse is skipped, the others are flattened and event_id is re-stamped
RowsOfRecord(r) ==
    IF r.json = BadJson THEN <<>>
    ELSE <<[flatten_event(r.json, r.match_id, r.index_in_file)
               EXCEPT !.event_id = r.event_id]>>

RECURSIVE ParsePage(_)
ParsePage(chunk) ==
    IF chunk = <<>> THEN <<>>
    ELSE RowsOfRecord(Head(chunk)) \o ParsePage(Tail(chunk))

(***************************************************************************)
(* chunked(iterable, size): the batches the generator yields.              *)
(***************************************************************************)
RECURSIVE ChunkedFrom(_, _, _)
ChunkedFrom(rest, size, buf) ==
    IF rest = <<>> THEN (IF buf # <<>> THEN <<buf>> ELSE <<>>)
    ELSE LET b == Append(buf, Head(rest))
         IN  IF Len(b) >= size
             THEN <<b>> \o ChunkedFrom(Tail(rest), size, <<>>)
             ELSE ChunkedFrom(Tail(rest), size, b)

\* the same generator without its trailing "if buf: yield buf"
RECURSIVE ChunkedFromNoTail(_, _, _)
ChunkedFromNoTail(rest, size, buf) ==
    IF rest = <<>> THEN <<>>
    ELSE LET b == Append(buf, Head(rest))
         IN  IF Len(b) >= size
             THEN <<b>> \o ChunkedFromNoTail(Tail(rest), size, <<>>)
             ELSE ChunkedFromNoTail(Tail(rest), size, b)

chunkedDropsTail(iterable, size) == ChunkedFromNoTail(iterable, size, <<>>)

chunked(iterable, size) == ChunkedFrom(iterable, size, <<>>)

(***************************************************************************)
(* The queries of the exporter.                                            *)
(***************************************************************************)
fetch_match_ids(store, comp, season) ==
    {m.match_id : m \in {r \in store.matches :
                            r.competition_id = comp /\ r.season_id = season}}

\* the player filter is on when limit_players is a non-empty list
PlayerJoin(players) == players # <<>>

\* FROM events_raw e JOIN temp_selected_matches [JOIN temp_selected_players]:
\* a NULL player_id joins with nothing
SelectedEvents(store, mids, players) ==
    {e \in store.events :
        /\ e.match_id \in mids
        /\ PlayerJoin(players) =>
              (e.player_id # NULL /\ e.player_id \in Range(players))}

\* ORDER BY e.match_id, e.index_in_file
OrderKeyLeq(a, b) ==
    \/ a.match_id < b.match_id
    \/ a.match_id = b.match_id /\ a.index_in_file <= b.index_in_file

\* the query without its ORDER BY clause: any order
RECURSIVE UnorderedResults(_)
UnorderedResults(S) ==
    IF S = {} THEN {<<>>}
    ELSE UNION {{<<m>> \o t : t \in UnorderedResults(S \ {m})} : m \in S}

\* every order the cursor may return the rows in: rows with equal keys come
\* in an order SQL does not fix
RECURSIVE OrderedResults(_)
OrderedResults(S) ==
    IF S = {} THEN {<<>>}
    ELSE UNION {{<<m>> \o t : t \in OrderedResults(S \ {m})} :
                   m \in {x \in S : \A y \in S : OrderKeyLeq(x, y)}}

(***************************************************************************)
(* The writers.  A CSV file is its sequence of lines.                      *)
(***************************************************************************)
NoRow == [match_id |-> NULL, event_id |-> "event_id", index_in_file |-> NULL,
          team_id |-> NULL, player_id |-> NULL]

HeaderLine == [kind |-> "header", row |-> NoRow]

RowLine(r) == [kind |-> "row", row |-> r]

RowLines(rows) == [i \in 1..Len(rows) |-> RowLine(rows[i])]

\* a writer that appends in every mode
write_csv_append(rows, file, write_header) ==
    file \o (IF write_header THEN <<HeaderLine>> ELSE <<>>) \o RowLines(rows)

\* mode "w" truncates, mode "a" appends; the header goes first when asked
write_csv(rows, file, write_header) ==
    (IF write_header THEN <<HeaderLine>> ELSE file) \o RowLines(rows)

\* a CSV file left by an earlier export to the same path
StaleCsv == <<HeaderLine, RowLine([NoRow EXCEPT !.event_id = "old"])>>

(***************************************************************************)
(* The sources of the ingester.  MATCHES_DIR holds two match files, in     *)
(* sorted order: 1/1.json with the match 1, and 1/2.json with the matches  *)
(* 2 and 3.  EVENTS_DIR holds at most one events file per match; the       *)
(* match 3 has none.  An events file is missing, is not JSON, or is a list *)
(* of event payloads.                                                      *)
(***************************************************************************)
MatchFiles ==
    <<[competition_id |-> 1, season_id |-> 1, matches |-> <<1>>],
      [competition_id |-> 1, season_id |-> 2, matches |-> <<2, 3>>]>>

SrcMatchIds == {1, 2, 3}

\* payloads of source events: two events of different players, an event
\* with the id of the first and no player, an event without an id
SrcEvents ==
    {Payload("a", 1, 1), Payload("b", 1, 2), Payload("a", 2, NULL),
     Payload(MissingId, 1, 1)}

AbsentFile == [status |-> "absent", events |-> <<>>]

CorruptFile == [status |-> "corrupt", events |-> <<>>]

SeqsUpTo(S, n) == UNION {[1..k -> S] : k \in 0..n}

EventFiles ==
    {AbsentFile, CorruptFile}
        \cup {[status |-> "ok", events |-> es] : es \in SeqsUpTo(SrcEvents, MaxEvents)}

Sources ==
    {f \in [SrcMatchIds -> EventFiles] : f[3] = AbsentFile}

(***************************************************************************)
(* INSERT OR REPLACE: the row that holds the primary key of the new row is *)
(* deleted, the new row is inserted.                                       *)
(***************************************************************************)
\* a table without a primary key: the old row stays
InsertKeepingOld(rows, row, key) == rows \cup {row}

\* key is the set of the columns of the primary key
InsertOrReplace(rows, row, key) ==
    {r \in rows : \E c \in key : r[c] # row[c]} \cup {row}

MatchKey == {"match_id"}

EventKey == {"match_id", "event_id"}

\* upsert_match: one row of matches_raw
upsert_match(store, mid, comp, season, source_file, at) ==
    [store EXCEPT !.matches =
        InsertOrReplace(@, MatchRow(mid, comp, season, source_file, at), MatchKey)]

\* the team id stored in the player_id column
EventTeamId(ev) == ev.team

\* the player_id column insert_events stores: (ev.get("player") or {}).get("id")
EventPlayerId(ev) == ev.player

\* the row insert_events builds for the event of index idx
EventTuple(mid, ev, idx, at) ==
    EventRow(mid, ev.id, idx, EventPlayerId(ev), ev, at)

\* executemany: the rows are inserted one after the other; a row without an
\* event_id violates NOT NULL and raises IntegrityError, and the rows
\* inserted before it stay in the open transaction
RECURSIVE ExecuteMany(_, _, _, _, _)
ExecuteMany(store, mid, events, idx, at) ==
    IF idx > Len(events) THEN [store |-> store, ok |-> TRUE]
    ELSE IF events[idx].id = MissingId THEN [store |-> store, ok |-> FALSE]
    ELSE ExecuteMany(
            [store EXCEPT !.events =
                InsertOrReplace(@, EventTuple(mid, events[idx], idx - 1, at), EventKey)],
            mid, events, idx + 1, at)

\* insert_events: enumerate() numbers the events from 0
insert_events(store, mid, events, at) == ExecuteMany(store, mid, events, 1, at)

(***************************************************************************)
(* The transaction of the connection.  sqlite3.connect() is called with    *)
(* the default isolation level: a statement that writes opens a            *)
(* transaction, and nothing is committed before conn.commit().             *)
(***************************************************************************)
\* a connection in autocommit mode: every statement is committed at once
CommittedAutocommit(committedStore, connStore) == connStore

\* the committed content after a statement that left connStore in the connection
CommittedAfterStatement(committedStore, connStore) == committedStore

(***************************************************************************)
(* main() of the ingester, one action per step.                            *)
(***************************************************************************)
Running == ipc \in {"loop", "upsert", "events", "commit"}

Stopped == ipc \in {"idle", "done", "raised", "crashed"}

CurFile == MatchFiles[fileIdx]

\* lines 144-153: timestamp, connect, ensure_schema.  The first run happens
\* at second 1, a later run in the same second as the one before or later.
StartRun(t) ==
    /\ Stopped /\ runs < MaxRuns
    /\ t \in (IF runs = 0 THEN {1} ELSE {ingested_at, ingested_at + 1})
    /\ ingested_at' = t
    /\ runs' = runs + 1
    /\ iconn' = "open"
    /\ db' = durable
    /\ snap' = [valid |-> ipc = "done" /\ ~edited, store |-> durable]
    /\ edited' = FALSE
    /\ fileIdx' = 0 /\ matchIdx' = 0 /\ committed' = 0
    /\ ipc' = "loop"
    /\ UNCHANGED <<durable, evFiles>>
    /\ UNCHANGED <<exportVars, flattenVars>>

\* line 155 and 179: the next match file, or conn.close() after the last
NextFile ==
    /\ ipc = "loop"
    /\ IF fileIdx = Len(MatchFiles)
       THEN /\ iconn' = "closed" /\ ipc' = "done"
            /\ UNCHANGED <<fileIdx, matchIdx>>
       ELSE /\ fileIdx' = fileIdx + 1 /\ matchIdx' = 1 /\ ipc' = "upsert"
            /\ UNCHANGED iconn
    /\ UNCHANGED <<storeVars, evFiles, ingested_at, runs, snap, edited, committed>>
    /\ UNCHANGED <<exportVars, flattenVars>>

\* lines 162-163: one iteration of the first loop over the matches of the file
UpsertMatch ==
    /\ ipc = "upsert"
    /\ LET mid == CurFile.matches[matchIdx]
           new == upsert_match(db, mid, CurFile.competition_id, CurFile.season_id,
                               fileIdx, ingested_at)
       IN  /\ db' = new
           /\ durable' = CommittedAfterStatement(durable, new)
    /\ IF matchIdx = Len(CurFile.matches)
       THEN matchIdx' = 1 /\ ipc' = "events"
       ELSE matchIdx' = matchIdx + 1 /\ UNCHANGED ipc
    /\ UNCHANGED <<evFiles, iconn, fileIdx, ingested_at, runs, snap, edited, committed>>
    /\ UNCHANGED <<exportVars, flattenVars>>

\* lines 166-173: one iteration of the second loop: a match without an events
\* file is skipped, a file that is not JSON makes load_json raise, and
\* insert_events raises when executemany does
InsertEvents ==
    /\ ipc = "events"
    /\ LET mid == CurFile.matches[matchIdx]
           file == evFiles[mid]
           res == insert_events(db, mid, file.events, ingested_at)
           last == matchIdx = Len(CurFile.matches)
       IN  CASE file.status = "absent" ->
                  /\ UNCHANGED storeVars
                  /\ IF last THEN ipc' = "commit" /\ UNCHANGED matchIdx
                     ELSE matchIdx' = matchIdx + 1 /\ UNCHANGED ipc
             [] file.status = "corrupt" ->
                  /\ ipc' = "raised"
                  /\ UNCHANGED <<storeVars, matchIdx>>
             [] file.status = "ok" ->
                  /\ db' = res.store
                  /\ durable' = CommittedAfterStatement(durable, res.store)
                  /\ IF ~res.ok THEN ipc' = "raised" /\ UNCHANGED matchIdx
                     ELSE IF last THEN ipc' = "commit" /\ UNCHANGED matchIdx
                     ELSE matchIdx' = matchIdx + 1 /\ UNCHANGED ipc
    /\ UNCHANGED <<evFiles, iconn, fileIdx, ingested_at, runs, snap, edited, committed>>
    /\ UNCHANGED <<exportVars, flattenVars>>

\* line 175: conn.commit()
Commit ==
    /\ ipc = "commit"
    /\ durable' = db
    /\ committed' = committed + 1
    /\ ipc' = "loop"
    /\ UNCHANGED <<db, evFiles, iconn, fileIdx, matchIdx, ingested_at, runs, snap, edited>>
    /\ UNCHANGED <<exportVars, flattenVars>>

\* the process is killed: the open transaction is lost
Crash ==
    /\ Running
    /\ ipc' = "crashed"
    /\ iconn' = "none"
    /\ db' = durable
    /\ UNCHANGED <<durable, evFiles, fileIdx, matchIdx, ingested_at, runs, snap,
                   edited, committed>>
    /\ UNCHANGED <<exportVars, flattenVars>>

\* between two runs somebody replaces the events file of a match
EditSource(mid, file) ==
    /\ ipc \in {"done", "raised", "crashed"} /\ runs < MaxRuns
    /\ ~edited
    /\ file # evFiles[mid]
    /\ evFiles' = [evFiles EXCEPT ![mid] = file]
    /\ edited' = TRUE
    /\ UNCHANGED <<storeVars, ipc, iconn, fileIdx, matchIdx, ingested_at, runs, snap,
                   committed>>
    /\ UNCHANGED <<exportVars, flattenVars>>

IngestNext ==
    \/ \E t \in 0..MaxRuns : StartRun(t)
    \/ NextFile
    \/ UpsertMatch
    \/ InsertEvents
    \/ Commit
    \/ Crash

ReingestNext ==
    \/ IngestNext
    \/ \E mid \in {1, 2}, file \in EventFiles : EditSource(mid, file)

(***************************************************************************)
(* export_events_flat, one action per step of the function.                *)
(***************************************************************************)
\* (competition_id, season_id) pairs a caller asks for
Selections == {<<1, 1>>, <<1, 2>>}

\* --players lists a caller passes: none, one player, a player given twice
PlayerLists == {<<>>, <<1>>, <<1, 1>>}

HasDuplicates(s) == \E i, j \in 1..Len(s) : i # j /\ s[i] = s[j]

ExportIdle ==
    /\ epc = "idle" /\ econn = "none"
    /\ competition_id = NULL /\ season_id = NULL
    /\ limit_players = <<>> /\ batch_size = 1
    /\ use_parquet = FALSE
    /\ match_ids = {} /\ result = <<>> /\ cursor = <<>> /\ batches = <<>>
    /\ exported = 0 /\ part = 0 /\ header_written = FALSE
    /\ parts = <<>>

\* lines 195-210: connect, fetch_match_ids, fill temp_selected_matches;
\* an empty selection closes the connection and raises ValueError
ExportBegin(comp, season, players, bs) ==
    /\ epc = "idle"
    /\ competition_id' = comp /\ season_id' = season
    /\ limit_players' = players /\ batch_size' = bs
    /\ LET ids == fetch_match_ids(durable, comp, season)
       IN  IF ids = {}
           THEN econn' = "closed" /\ epc' = "raised" /\ match_ids' = {}
           ELSE econn' = "open" /\ epc' = "players" /\ match_ids' = ids
    /\ UNCHANGED <<use_parquet, result, cursor, batches, exported, part,
                   header_written, parts, csv>>
    /\ UNCHANGED <<storeVars, ingestVars, flattenVars>>

\* lines 213-221: fill temp_selected_players (player_id is its primary key,
\* so a player given twice makes executemany raise IntegrityError)
SelectPlayers ==
    /\ epc = "players"
    /\ epc' = IF PlayerJoin(limit_players) /\ HasDuplicates(limit_players)
              THEN "raised" ELSE "query"
    /\ UNCHANGED <<econn, competition_id, season_id, limit_players, batch_size,
                   use_parquet, match_ids, result, cursor, batches, exported,
                   part, header_written, parts, csv>>
    /\ UNCHANGED <<storeVars, ingestVars, flattenVars>>

\* lines 237-256: choose the writer (pq is parquet_available()), run
\* select_sql, reset the counters
RunQuery(pq) ==
    /\ epc = "query"
    /\ use_parquet' = pq
    /\ \E rs \in OrderedResults(SelectedEvents(durable, match_ids, limit_players)) :
          result' = rs /\ cursor' = rs
    /\ exported' = 0 /\ part' = 0 /\ header_written' = FALSE
    /\ epc' = "fetch"
    /\ UNCHANGED <<econn, competition_id, season_id, limit_players, batch_size,
                   match_ids, batches, parts, csv>>
    /\ UNCHANGED <<storeVars, ingestVars, flattenVars>>

\* lines 258-275: fetch a page; an empty page ends the loop and closes the
\* connection, another is parsed, flattened and handed to chunked()
FetchChunk ==
    /\ epc = "fetch"
    /\ LET chunk == Take(cursor, FetchPage)
           rows == ParsePage(chunk)
           bs == chunked(rows, batch_size)
       IN  IF chunk = <<>>
           THEN /\ econn' = "closed" /\ epc' = "done"
                /\ UNCHANGED <<cursor, batches>>
           ELSE /\ cursor' = Drop(cursor, FetchPage)
                /\ batches' = bs
                /\ epc' = IF bs = <<>> THEN "fetch" ELSE "write"
                /\ UNCHANGED econn
    /\ UNCHANGED <<competition_id, season_id, limit_players, batch_size,
                   use_parquet, match_ids, result, exported, part,
                   header_written, parts, csv>>
    /\ UNCHANGED <<storeVars, ingestVars, flattenVars>>

\* lines 275-284: one iteration of the loop over the batches of a page.  The
\* part file of number `part` is the element part + 1 of `parts`.
WriteBatch ==
    /\ epc = "write"
    /\ LET batch == Head(batches)
       IN  /\ IF use_parquet
              THEN /\ parts' = [i \in 1..(part + 1) |->
                                   IF i = part + 1 THEN batch ELSE parts[i]]
                   /\ part' = part + 1
                   /\ UNCHANGED <<csv, header_written>>
              ELSE /\ csv' = write_csv(batch, csv, ~header_written)
                   /\ header_written' = TRUE
                   /\ UNCHANGED <<parts, part>>
           /\ exported' = exported + Len(batch)
    /\ batches' = Tail(batches)
    /\ epc' = IF Tail(batches) = <<>> THEN "fetch" ELSE "write"
    /\ UNCHANGED <<econn, competition_id, season_id, limit_players, batch_size,
                   use_parquet, match_ids, result, cursor>>
    /\ UNCHANGED <<storeVars, ingestVars, flattenVars>>

\* the writer raises (disk full, permission denied): the error leaves
\* export_events_flat at once
WriteFails ==
    /\ epc = "write"
    /\ epc' = "raised"
    /\ UNCHANGED <<econn, competition_id, season_id, limit_players, batch_size,
                   use_parquet, match_ids, result, cursor, batches, exported,
                   part, header_written, parts, csv>>
    /\ UNCHANGED <<storeVars, ingestVars, flattenVars>>

ExportNext ==
    \/ \E sel \in Selections, players \in PlayerLists, bs \in 1..MaxBatch :
          ExportBegin(sel[1], sel[2], players, bs)
    \/ SelectPlayers
    \/ \E pq \in BOOLEAN : RunQuery(pq)
    \/ FetchChunk
    \/ WriteBatch
    \/ WriteFails

(***************************************************************************)
(* The ingester before its first run.                                      *)
(***************************************************************************)
IngestIdle ==
    /\ ipc = "idle" /\ iconn = "none"
    /\ fileIdx = 0 /\ matchIdx = 0
    /\ ingested_at = 0 /\ runs = 0
    /\ snap = [valid |-> FALSE, store |-> EmptyStore]
    /\ edited = FALSE /\ committed = 0

(***************************************************************************)
(* SpecExport: an export run over any store content.  The store holds the  *)
(* matches 1 and 2 and any events of theirs, with any index_in_file, a     *)
(* payload of player 1 or 2 or a text that does not parse.  The output     *)
(* directory holds the CSV file of an earlier export.                      *)
(***************************************************************************)
Absent == [idx |-> NULL, pid |-> NULL, bad |-> FALSE]

StoredEvents ==
    {Absent} \cup [idx : 0..MaxIdx, pid : PlayerIds, bad : {FALSE}]
             \cup [idx : 0..MaxIdx, pid : {1}, bad : {TRUE}]

EventKeys == MatchIds \X EventIds

EventsOf(f) ==
    {EventRow(k[1], k[2], f[k].idx, f[k].pid,
              IF f[k].bad THEN BadJson ELSE Payload(k[2], 1, f[k].pid), 0) :
        k \in {x \in EventKeys : f[x] # Absent}}

ExportStores ==
    {[matches |-> {MatchRow(1, 1, 1, 1, 0), MatchRow(2, 1, s, s, 0)},
      events |-> EventsOf(f)] :
        s \in {1, 2}, f \in [EventKeys -> StoredEvents]}

ExportInit ==
    /\ durable \in ExportStores
    /\ db = durable
    /\ evFiles = [m \in SrcMatchIds |-> AbsentFile]
    /\ IngestIdle
    /\ ExportIdle
    /\ FlattenIdle
    /\ csv = StaleCsv

SpecExport == ExportInit /\ [][ExportNext]_vars

(***************************************************************************)
(* What a run has written so far.                                          *)
(***************************************************************************)
\* the rows after the header of the CSV file
CsvRows == [i \in 1..(Len(csv) - 1) |-> csv[i + 1].row]

\* the rows the current run has written, in write order
Written ==
    IF use_parquet THEN Flatten(parts)
    ELSE IF header_written THEN CsvRows ELSE <<>>

\* the while loop of lines 258-284 run to the end over a result set with a
\* fetch page of `page` rows: the batches it hands to the writer, in order
RECURSIVE ExportedBatches(_, _, _)
ExportedBatches(rs, bs, page) ==
    IF rs = <<>> THEN <<>>
    ELSE chunked(ParsePage(Take(rs, page)), bs)
            \o ExportedBatches(Drop(rs, page), bs, page)

Ceil(a, b) == (a + b - 1) \div b

HeaderCount(file) == Cardinality({i \in 1..Len(file) : file[i] = HeaderLine})

(***************************************************************************)
(* C1 (partition-count law): in columnar mode a run that completes has     *)
(* written ceil(exported / batch_size) part files.                         *)
(***************************************************************************)
C1_PartitionCount ==
    (epc = "done" /\ use_parquet) => part = Ceil(exported, batch_size)

(***************************************************************************)
(* C2 (page-size independence): the files a completed run has written are  *)
(* the files the same loop writes with any other fetch-page size: the same *)
(* part files with the same rows, the same CSV content.                    *)
(***************************************************************************)
C2_PageSizeIndependent ==
    epc = "done" =>
        \A q \in 1..(FetchPage + 1) :
            LET bs == ExportedBatches(result, batch_size, q)
            IN  /\ use_parquet => parts = bs
                /\ (~use_parquet /\ bs # <<>>) =>
                      csv = <<HeaderLine>> \o RowLines(Flatten(bs))

(***************************************************************************)
(* C3 (row-count conservation): a run that completes has written exactly   *)
(* one row for every stored event that matches the selection and parses,   *)
(* none for any other, and as many rows as there are matching events less  *)
(* the matching events that do not parse.                                  *)
(***************************************************************************)
MatchingEvents ==
    {e \in durable.events :
        /\ \E m \in durable.matches :
              /\ m.match_id = e.match_id
              /\ m.competition_id = competition_id
              /\ m.season_id = season_id
        /\ limit_players # <<>> =>
              \E i \in 1..Len(limit_players) : limit_players[i] = e.player_id}

Unparseable == {e \in MatchingEvents : e.json = BadJson}

RowsFor(e) ==
    {i \in 1..Len(Written) :
        Written[i].match_id = e.match_id /\ Written[i].event_id = e.event_id}

C3_RowCountConservation ==
    epc = "done" =>
        /\ Len(Written) = Cardinality(MatchingEvents) - Cardinality(Unparseable)
        /\ exported = Len(Written)
        /\ \A e \in MatchingEvents \ Unparseable : Cardinality(RowsFor(e)) = 1
        /\ \A e \in durable.events \ (MatchingEvents \ Unparseable) :
              RowsFor(e) = {}

\* a completed filtered run over a store that holds matching events that
\* parse, one that does not, and events outside the selection
C3_Witness ==
    /\ epc = "done" /\ limit_players # <<>>
    /\ exported >= 2
    /\ Unparseable # {}
    /\ durable.events \ MatchingEvents # {}

(***************************************************************************)
(* C4 (ordering): the rows written so far, in write order, are in          *)
(* non-decreasing (match_id, index_in_file) order.                         *)
(***************************************************************************)
C4_Ordering ==
    \A i, j \in 1..Len(Written) :
        i < j =>
            \/ Written[i].match_id < Written[j].match_id
            \/ /\ Written[i].match_id = Written[j].match_id
               /\ Written[i].index_in_file <= Written[j].index_in_file

\* a completed run over two matches whose rows span several pages and parts
C4_Witness ==
    /\ epc = "done" /\ use_parquet /\ part >= 2
    /\ Len(result) > FetchPage
    /\ \E i, j \in 1..Len(Written) :
          /\ Written[i].match_id # Written[j].match_id
    /\ \E i, j \in 1..Len(Written) :
          /\ Written[i].match_id = Written[j].match_id
          /\ Written[i].index_in_file < Written[j].index_in_file

(***************************************************************************)
(* C5 (header-once law): in single-file mode every write leaves the file   *)
(* with exactly one header line, its first; the first write of the run     *)
(* replaces the file by the header and the batch, every later write adds   *)
(* the batch after what the file held.                                     *)
(***************************************************************************)
C5_HeaderOnce ==
    [][(epc = "write" /\ ~use_parquet /\ exported' # exported) =>
          /\ csv'[1] = HeaderLine
          /\ HeaderCount(csv') = 1
          /\ IF header_written
             THEN csv' = csv \o RowLines(Head(batches))
             ELSE csv' = <<HeaderLine>> \o RowLines(Head(batches))]_vars

\* a completed single-file run of at least two writes
C5_Witness ==
    /\ epc = "done" /\ ~use_parquet /\ header_written
    /\ batch_size = 1 /\ exported >= 2
    /\ Len(csv) = exported + 1

(***************************************************************************)
(* SpecIngest: runs of the ingester over any sources, one after the other  *)
(* over the same sources, starting from an empty store; a run returns,     *)
(* raises or is killed.                                                    *)
(* SpecReingest: the same, with the events file of a match replaced        *)
(* between two runs.                                                       *)
(***************************************************************************)
IngestInit ==
    /\ durable = EmptyStore
    /\ db = EmptyStore
    /\ evFiles \in Sources
    /\ IngestIdle
    /\ ExportIdle
    /\ FlattenIdle
    /\ csv = <<>>

SpecIngest == IngestInit /\ [][IngestNext]_vars

SpecReingest == IngestInit /\ [][ReingestNext]_vars

(***************************************************************************)
(* The body of the for loop over the match files (lines 155-175) as one    *)
(* step: what processing the match file fi writes when nothing raises.     *)
(***************************************************************************)
RECURSIVE UpsertMatchesFrom(_, _, _, _)
UpsertMatchesFrom(store, fi, k, at) ==
    IF k > Len(MatchFiles[fi].matches) THEN store
    ELSE UpsertMatchesFrom(
            upsert_match(store, MatchFiles[fi].matches[k],
                         MatchFiles[fi].competition_id, MatchFiles[fi].season_id,
                         fi, at),
            fi, k + 1, at)

RECURSIVE InsertEventsFrom(_, _, _, _, _)
InsertEventsFrom(store, fi, k, files, at) ==
    IF k > Len(MatchFiles[fi].matches) THEN store
    ELSE LET mid == MatchFiles[fi].matches[k]
         IN  InsertEventsFrom(
                IF files[mid].status = "ok"
                THEN insert_events(store, mid, files[mid].events, at).store
                ELSE store,
                fi, k + 1, files, at)

IngestFile(store, fi, files, at) ==
    InsertEventsFrom(UpsertMatchesFrom(store, fi, 1, at), fi, 1, files, at)

RECURSIVE IngestFiles(_, _, _, _)
IngestFiles(store, n, files, at) ==
    IF n = 0 THEN store
    ELSE IngestFile(IngestFiles(store, n - 1, files, at), n, files, at)

\* a store with the column ingested_at blanked
WithoutIngestedAt(store) ==
    [matches |-> {[r EXCEPT !.ingested_at = 0] : r \in store.matches},
     events |-> {[r EXCEPT !.ingested_at = 0] : r \in store.events}]

(***************************************************************************)
(* C7 (idempotent ingestion), as claimed: when a run completes over the    *)
(* sources the completed run before it has read, the store is what it was  *)
(* when the run started, in every column of every row.                     *)
(***************************************************************************)
C7_Idempotent ==
    (ipc = "done" /\ snap.valid) => durable = snap.store

(***************************************************************************)
(* C7 as amended: the second run leaves both tables with the same number   *)
(* of rows and every row with the same value in every column other than    *)
(* ingested_at.                                                            *)
(***************************************************************************)
C7_IdempotentButTimestamp ==
    (ipc = "done" /\ snap.valid) =>
        /\ Cardinality(durable.matches) = Cardinality(snap.store.matches)
        /\ Cardinality(durable.events) = Cardinality(snap.store.events)
        /\ WithoutIngestedAt(durable) = WithoutIngestedAt(snap.store)

\* a second run, in a later second, that has rewritten event rows
C7_Witness ==
    /\ ipc = "done" /\ snap.valid
    /\ Cardinality(durable.events) >= 3
    /\ durable # snap.store

(***************************************************************************)
(* C8 (per-file atomicity): at every point of a run, and after it stopped  *)
(* in any way, the committed store is the store the run started from with  *)
(* the match files it has committed processed completely, and nothing of   *)
(* any other file (the sources being those the run has read).              *)
(***************************************************************************)
C8_FileAtomicity ==
    (runs > 0 /\ ~edited) =>
        durable = IngestFiles(snap.store, committed, evFiles, ingested_at)

\* a second run raises inside the second match file after it has written
\* rows of that file, the first file being committed
C8_Witness ==
    /\ ipc = "raised" /\ runs = 2 /\ committed = 1 /\ fileIdx = 2
    /\ db.events # durable.events
    /\ durable # snap.store
    /\ snap.store.events # {}

(***************************************************************************)
(* C10 (stored index invariant): after a completed run, the first or one   *)
(* over edited sources, the index_in_file values of the rows of every      *)
(* match are distinct and are 0..n-1.                                      *)
(***************************************************************************)
C10_IndexDense ==
    ipc = "done" =>
        \A m \in SrcMatchIds :
            LET rs == {r \in durable.events : r.match_id = m}
                idx == {r.index_in_file : r \in rs}
            IN  /\ Cardinality(idx) = Cardinality(rs)
                /\ idx = 0..(Cardinality(rs) - 1)

(***************************************************************************)
(* Spec: the pipeline.  One run of the ingester fills an empty store from  *)
(* any sources; once it has stopped (returned, raised or killed), an       *)
(* export run reads what is committed.                                     *)
(***************************************************************************)
Init == IngestInit

Next ==
    \/ runs = 0 /\ StartRun(1)
    \/ NextFile
    \/ UpsertMatch
    \/ InsertEvents
    \/ Commit
    \/ Crash
    \/ \E sel \in Selections, players \in PlayerLists, bs \in 1..MaxBatch :
          Stopped /\ runs > 0 /\ ExportBegin(sel[1], sel[2], players, bs)
    \/ SelectPlayers
    \/ \E pq \in BOOLEAN : RunQuery(pq)
    \/ FetchChunk
    \/ WriteBatch
    \/ WriteFails

Spec == Init /\ [][Next]_vars

(***************************************************************************)
(* C6 (filter correctness): with a non-empty player filter, every row the  *)
(* export has written over a store filled by the ingester carries a        *)
(* player_id (read from the payload) that is in the filter, never NULL.    *)
(***************************************************************************)
C6_FilterCorrect ==
    limit_players # <<>> =>
        \A i \in 1..Len(Written) :
            /\ Written[i].player_id # NULL
            /\ \E k \in 1..Len(limit_players) :
                  limit_players[k] = Written[i].player_id

\* a completed filtered export that wrote rows, over a store that also holds
\* events of another player and events without a player
C6_Witness ==
    /\ epc = "done" /\ limit_players # <<>>
    /\ Len(Written) >= 1
    /\ \E e \in durable.events : e.player_id = NULL
    /\ \E e \in durable.events : e.player_id # NULL /\ e.player_id \notin Range(limit_players)

(***************************************************************************)
(* C9 (connection released on every exit path): whenever the ingester's    *)
(* main or export_events_flat has ended, by returning or by raising, the   *)
(* connection it opened is closed.                                         *)
(***************************************************************************)
C9_ConnectionClosed ==
    /\ ipc \in {"done", "raised"} => iconn = "closed"
    /\ epc \in {"done", "raised"} => econn = "closed"

(***************************************************************************)
(* SpecFlatten: one call of flatten_event on any event payload.            *)
(***************************************************************************)
FlattenInit ==
    /\ durable = EmptyStore
    /\ db = EmptyStore
    /\ evFiles = [m \in SrcMatchIds |-> AbsentFile]
    /\ IngestIdle
    /\ ExportIdle
    /\ csv = <<>>
    /\ fpc = "called"
    /\ fev \in Events
    /\ frow = [c \in COLUMNS |-> NULL]

SpecFlatten == FlattenInit /\ [][FlattenEvent]_vars

\* the type-specific columns of a row that are not null
NonNull(row) == {c \in TypeSpecific : row[c] # NULL}

\* the type-specific columns that belong to a type tag
OwnColumns(type) ==
    CASE type = "Pass" -> PassColumns
      [] type = "Shot" -> ShotColumns
      [] type = "Carry" -> {"carry_length"}
      [] type = "Duel" -> {"duel_type"}
      [] type = "Foul Committed" -> {"foul_committed"}
      [] type = "Foul Won" -> {"foul_won"}
      [] OTHER -> {}

\* the payload has no object under the key of its own type
OwnObjectAbsent(ev) ==
    CASE ev.type = "Pass" -> ~ev.pass.isdict
      [] ev.type = "Shot" -> ~ev.shot.isdict
      [] ev.type = "Carry" -> ~ev.carry.isdict
      [] ev.type = "Duel" -> ~ev.duel.isdict
      [] ev.type = "Foul Committed" -> ~ev.foul_committed.isdict
      [] ev.type = "Foul Won" -> ~ev.foul_won.isdict
      [] OTHER -> FALSE

(***************************************************************************)
(* C11 as stated (type isolation): the type-specific columns that are not  *)
(* null in the returned row all belong to the event's own type, and an     *)
(* event of any other type, or one whose own nested object is absent, has  *)
(* every type-specific column null.                                        *)
(***************************************************************************)
C11_TypeIsolationAsStated ==
    fpc = "returned" =>
        /\ NonNull(frow) \subseteq OwnColumns(fev.type)
        /\ OwnObjectAbsent(fev) => NonNull(frow) = {}

(***************************************************************************)
(* C11 (type isolation): the type-specific columns that are not null in    *)
(* the returned row all belong to the event's own type; a Pass, Shot,      *)
(* Carry or Duel event whose own nested object is absent has every         *)
(* type-specific column null; a Foul Committed or Foul Won event has its   *)
(* own flag set, and nothing else, whether or not the payload carries an   *)
(* object under that key.                                                  *)
(***************************************************************************)
C11_TypeIsolation ==
    fpc = "returned" =>
        /\ NonNull(frow) \subseteq OwnColumns(fev.type)
        /\ fev.type \in {"Pass", "Shot", "Carry", "Duel"} /\ OwnObjectAbsent(fev)
              => NonNull(frow) = {}
        /\ fev.type \in {"Foul Committed", "Foul Won"}
              => NonNull(frow) = OwnColumns(fev.type)

\* a Shot event that also carries a filled pass object and a duel object has
\* been flattened, and its shot columns are filled
C11_Witness ==
    /\ fpc = "returned"
    /\ fev.type = "Shot"
    /\ fev.pass.isdict /\ fev.pass.length # NULL
    /\ fev.duel.isdict /\ fev.duel.type # NULL
    /\ NonNull(frow) = ShotColumns
=============================================================================
